---- MODULE Spec2Model ----
(***************************************************************************)
(* Planner multi-plan viewer (src/main.py): the PlannerViewer window, its  *)
(* pandas DataFrame, the filtered/sorted Treeview it shows, and MainApp's  *)
(* registry of viewers with its JSON session file.                         *)
(*                                                                         *)
(* Text is a sequence of one-character strings, so that lower(), strip(),  *)
(* substring/regex search and ordering are computed, not assumed.          *)
(* pandas semantics are those of pandas 1.x/2.x: Series.astype(str) turns  *)
(* a missing value into the text "nan", Series.str.contains(pat) is a      *)
(* regular-expression search, sort_values puts missing values last.        *)
(***************************************************************************)
EXTENDS Integers, Sequences, FiniteSets, TLC

VARIABLES
    viewers,   \* MainApp.viewers: the open PlannerViewer windows, in order
    session,   \* the session file: whether it exists and the entries in it
    running,   \* the MainApp window exists (not yet destroyed by _on_exit)
    last,      \* the handler that ran last and what it showed the user
    edits,     \* how many times a DataFrame was changed so far (bounds the model)
    exported   \* the workbook export_to_excel wrote last, if it wrote one

vars == <<viewers, session, running, last, edits, exported>>

(* ---------------------------------------------------------------- bounds *)

\* most rows a viewer's DataFrame may hold (add and merge are guarded by it)
MaxRows == 3
\* most viewers open at once in the session specification
MaxViewers == 2
\* most changes of a DataFrame (add, mark done, delete, merge) in one run
MaxEdits == 2

(* ------------------------------------------------------------------ text *)

Range(s) == {s[i] : i \in 1..Len(s)}

\* Python's None (active_column, sort_col)
None == <<"None">>
\* a missing cell (float NaN) of a DataFrame
NaN == <<"NaN">>

UpperChars == <<"A","B","C","D","E","F","G","H","I","J","K","L","M",
                "N","O","P","Q","R","S","T","U","V","W","X","Y","Z">>
LowerChars == <<"a","b","c","d","e","f","g","h","i","j","k","l","m",
                "n","o","p","q","r","s","t","u","v","w","x","y","z">>
Digits == <<"0","1","2","3","4","5","6","7","8","9">>
\* the characters in code-point order (what Python's str comparison uses)
CodePoints == <<" ", "(", ".">> \o Digits \o UpperChars \o LowerChars

IndexOf(seq, x) == CHOOSE i \in 1..Len(seq) : seq[i] = x

LowerChar(c) == IF c \in Range(UpperChars) THEN LowerChars[IndexOf(UpperChars, c)] ELSE c

\* str.lower()
Lower(s) == [i \in 1..Len(s) |-> LowerChar(s[i])]

RECURSIVE LStrip(_)
LStrip(s) == IF s # <<>> /\ Head(s) = " " THEN LStrip(Tail(s)) ELSE s

RECURSIVE RStrip(_)
RStrip(s) == IF s # <<>> /\ s[Len(s)] = " " THEN RStrip(SubSeq(s, 1, Len(s) - 1)) ELSE s

\* str.strip()
Strip(s) == RStrip(LStrip(s))

\* str(n) of a non-negative int
RECURSIVE IntToStr(_)
IntToStr(n) == IF n < 10 THEN <<Digits[n + 1]>>
               ELSE IntToStr(n \div 10) \o <<Digits[(n % 10) + 1]>>

\* int(s); Raises stands for ValueError
IsInt(s) == s # <<>> /\ \A i \in 1..Len(s) : s[i] \in Range(Digits)

RECURSIVE StrToInt(_)
StrToInt(s) == IF Len(s) = 1 THEN IndexOf(Digits, s[1]) - 1
               ELSE 10 * StrToInt(SubSeq(s, 1, Len(s) - 1)) + (IndexOf(Digits, s[Len(s)]) - 1)

\* Python's str < str: lexicographic by code point
RECURSIVE StrLess(_, _)
StrLess(a, b) ==
    IF b = <<>> THEN FALSE
    ELSE IF a = <<>> THEN TRUE
    ELSE IF Head(a) = Head(b) THEN StrLess(Tail(a), Tail(b))
    ELSE IndexOf(CodePoints, Head(a)) < IndexOf(CodePoints, Head(b))

\* re.compile(pat) succeeds. Over the characters typed here the only way a
\* pattern is malformed is an opening parenthesis that is never closed.
RegexValid(pat) == \A i \in 1..Len(pat) : pat[i] # "("

\* re.search(pat, s) for a valid pattern: "." matches any character, every
\* other character matches itself
RegexSearch(pat, s) ==
    \E k \in 0..(Len(s) - Len(pat)) :
        \A j \in 1..Len(pat) : pat[j] = "." \/ pat[j] = s[k + j]

\* Series.astype(str) on one cell: NaN becomes the text "nan"
AsTypeStr(v) == IF v = NaN THEN <<"n","a","n">> ELSE v

\* "" if pd.isna(v) else str(v)
DisplayStr(v) == IF v = NaN THEN <<>> ELSE v

(* ------------------------------------------------------------- DataFrame *)
\* A DataFrame is [columns, index, data]: the column labels in order, the
\* row labels in storage order, and per storage position the row as a
\* function from column label to cell.

NRows(df) == Len(df.index)

Positions(df) == [i \in 1..NRows(df) |-> i]

\* the rows at the given storage positions, labels kept (df[mask], df.drop)
TakeRows(df, pos) ==
    [columns |-> df.columns,
     index   |-> [k \in 1..Len(pos) |-> df.index[pos[k]]],
     data    |-> [k \in 1..Len(pos) |-> df.data[pos[k]]]]

\* df[mask] for a boolean mask over the storage positions
BoolIndex(df, mask) ==
    LET Keep(i) == mask[i] IN TakeRows(df, SelectSeq(Positions(df), Keep))

\* df.drop(index=labels) raises KeyError when a label is not in the index
DropRaises(df, labels) == \E k \in 1..Len(labels) : labels[k] \notin Range(df.index)

\* df.drop(index=labels)
Drop(df, labels) ==
    LET Keep(i) == df.index[i] \notin Range(labels)
    IN TakeRows(df, SelectSeq(Positions(df), Keep))

\* the elements of seq that are not in base, in seq's order
NotIn(seq, base) == LET New(c) == c \notin Range(base) IN SelectSeq(seq, New)

\* reset_index left out: the labels stay as they were
ResetIndex_KeepsLabels(df) == df

\* df.reset_index(drop=True)
ResetIndex(df) == [df EXCEPT !.index = [i \in 1..NRows(df) |-> i - 1]]

\* the two column lists concatenated, without dict.fromkeys
FromKeys_KeepsDuplicates(seq) == seq

\* list(dict.fromkeys(seq)): first occurrences, in order
RECURSIVE FromKeys(_)
FromKeys(seq) ==
    IF seq = <<>> THEN <<>>
    ELSE LET init == SubSeq(seq, 1, Len(seq) - 1)
             x    == seq[Len(seq)]
         IN IF x \in Range(init) THEN FromKeys(init) ELSE FromKeys(init) \o <<x>>

\* reindex without fill_value: a new column's cells are NaN
Reindex_IgnoresFill(df, cols, fill) ==
    [columns |-> cols,
     index   |-> df.index,
     data    |-> [i \in 1..NRows(df) |->
                    [c \in Range(cols) |->
                        IF c \in Range(df.columns) THEN df.data[i][c] ELSE NaN]]]

\* df.reindex(columns=cols, fill_value=fill)
Reindex(df, cols, fill) ==
    [columns |-> cols,
     index   |-> df.index,
     data    |-> [i \in 1..NRows(df) |->
                    [c \in Range(cols) |->
                        IF c \in Range(df.columns) THEN df.data[i][c] ELSE fill]]]

\* concat without ignore_index: each frame's labels are kept
Concat_KeepsLabels(a, b) ==
    LET cols == a.columns \o NotIn(b.columns, a.columns)
    IN [columns |-> cols,
        index   |-> a.index \o b.index,
        data    |-> [i \in 1..NRows(a) |->
                        [c \in Range(cols) |->
                            IF c \in Range(a.columns) THEN a.data[i][c] ELSE NaN]]
                    \o [i \in 1..NRows(b) |->
                        [c \in Range(cols) |->
                            IF c \in Range(b.columns) THEN b.data[i][c] ELSE NaN]]]

\* concat with the frames in the wrong order: pd.concat([b, a], ...)
Concat_IncomingFirst(a, b) ==
    LET cols == a.columns \o NotIn(b.columns, a.columns)
    IN [columns |-> cols,
        index   |-> [i \in 1..(NRows(a) + NRows(b)) |-> i - 1],
        data    |-> [i \in 1..NRows(b) |->
                        [c \in Range(cols) |->
                            IF c \in Range(b.columns) THEN b.data[i][c] ELSE NaN]]
                    \o [i \in 1..NRows(a) |->
                        [c \in Range(cols) |->
                            IF c \in Range(a.columns) THEN a.data[i][c] ELSE NaN]]]

\* pd.concat([a, b], ignore_index=True): outer join of the columns (a's
\* first), cells of a column a frame lacks are NaN, labels 0..n-1
Concat(a, b) ==
    LET cols == FromKeys(a.columns \o b.columns)
        ra   == Reindex(a, cols, NaN)
        rb   == Reindex(b, cols, NaN)
    IN [columns |-> cols,
        index   |-> [i \in 1..(NRows(a) + NRows(b)) |-> i - 1],
        data    |-> ra.data \o rb.data]

\* df[c] = v: every cell of column c is v; a new column is appended last
SetColumn(df, c, v) ==
    LET cols == IF c \in Range(df.columns) THEN df.columns ELSE Append(df.columns, c)
    IN [columns |-> cols,
        index   |-> df.index,
        data    |-> [i \in 1..NRows(df) |->
                        [d \in Range(cols) |-> IF d = c THEN v ELSE df.data[i][d]]]]

\* df.at[idx, c] = v
SetAt(df, idx, c, v) ==
    [df EXCEPT !.data = [i \in 1..NRows(df) |->
                            IF df.index[i] = idx THEN [df.data[i] EXCEPT ![c] = v]
                            ELSE df.data[i]]]

\* stable merge sort of storage positions by key (numpy's kind='mergesort')
RECURSIVE Merge(_, _, _)
Merge(a, b, key) ==
    IF a = <<>> THEN b
    ELSE IF b = <<>> THEN a
    ELSE IF StrLess(key[Head(b)], key[Head(a)])
         THEN <<Head(b)>> \o Merge(a, Tail(b), key)
         ELSE <<Head(a)>> \o Merge(Tail(a), b, key)

RECURSIVE MergeSort(_, _)
MergeSort(s, key) ==
    IF Len(s) <= 1 THEN s
    ELSE LET m == Len(s) \div 2
         IN Merge(MergeSort(SubSeq(s, 1, m), key),
                  MergeSort(SubSeq(s, m + 1, Len(s)), key), key)

Reverse(s) == [i \in 1..Len(s) |-> s[Len(s) + 1 - i]]

\* a descending sort taken as the ascending one read backwards: rows with
\* equal keys come out in reverse storage order
SortValues_ReversesAscending(df, by, asc) ==
    LET key       == [i \in 1..NRows(df) |-> df.data[i][by]]
        IsNa(i)   == key[i] = NaN
        NotNa(i)  == key[i] # NaN
        nonnan    == SelectSeq(Positions(df), NotNa)
        nan       == SelectSeq(Positions(df), IsNa)
        sorted    == IF asc THEN MergeSort(nonnan, key)
                     ELSE Reverse(MergeSort(nonnan, key))
    IN TakeRows(df, sorted \o nan)

\* df.sort_values(by=by, ascending=asc, kind='mergesort'): pandas' nargsort
\* sorts the non-missing keys (descending: reversed, sorted, reversed back,
\* which keeps ties in storage order) and puts the missing ones last
SortValues(df, by, asc) ==
    LET key       == [i \in 1..NRows(df) |-> df.data[i][by]]
        IsNa(i)   == key[i] = NaN
        NotNa(i)  == key[i] # NaN
        nonnan    == SelectSeq(Positions(df), NotNa)
        nan       == SelectSeq(Positions(df), IsNa)
        sorted    == IF asc THEN MergeSort(nonnan, key)
                     ELSE Reverse(MergeSort(Reverse(nonnan), key))
    IN TakeRows(df, sorted \o nan)

(* ----------------------------------------------------- the files on disk *)
\* The workbooks pd.read_excel can be asked for. Column labels and cells are
\* text; an empty workbook cell is read as NaN.

Task  == <<"T","a","s","k">>
Due   == <<"D","u","e">>
State == <<"S","t","a","t","e">>

Paths == {"f1", "f2", "f3", "bad"}

\* load_excel(file_path) raises (missing or malformed workbook)
LoadRaises(path) == path = "bad"

\* load_excel(file_path): pd.read_excel gives the labels 0..n-1
load_excel(path) ==
    CASE path = "f1" ->
           [columns |-> <<Task, Due>>,
            index   |-> <<0, 1>>,
            data    |-> << (Task :> <<"N","b">>) @@ (Due :> NaN),
                           (Task :> <<"b">>)     @@ (Due :> <<"b">>) >>]
      [] path = "f2" ->
           [columns |-> <<Due, State>>,
            index   |-> <<0>>,
            data    |-> << (Due :> <<"b">>) @@ (State :> NaN) >>]
      [] path = "f3" ->
           [columns |-> <<Due>>,
            index   |-> <<0>>,
            data    |-> << (Due :> <<"N","b">>) >>]

(* --------------------------------------------------------- PlannerViewer *)

\* populate_tree that sorts the frame it is given in place, so that the
\* viewer's filtered rows are left in display order
populate_tree_SortsInPlace(v, df) ==
    LET show == IF v.sort_col # None /\ v.sort_col \in Range(df.columns)
                THEN SortValues(df, v.sort_col, v.sort_asc)
                ELSE df
    IN [v EXCEPT
          !.tree = [k \in 1..NRows(show) |->
                      [iid    |-> IntToStr(show.index[k]),
                       values |-> [j \in 1..Len(show.columns) |->
                                     DisplayStr(show.data[k][show.columns[j]])]]],
          !.selection = <<>>,
          !.filtered_df = show]

\* populate_tree(df): the Treeview's children are replaced (which also
\* empties its selection) by the rows of df, sorted when a sort is set
populate_tree(v, df) ==
    LET show == IF v.sort_col # None /\ v.sort_col \in Range(df.columns)
                THEN SortValues(df, v.sort_col, v.sort_asc)
                ELSE df
    IN [v EXCEPT
          !.tree = [k \in 1..NRows(show) |->
                      [iid    |-> IntToStr(show.index[k]),
                       values |-> [j \in 1..Len(show.columns) |->
                                     DisplayStr(show.data[k][show.columns[j]])]]],
          !.selection = <<>>]

\* PlannerViewer.__init__ and create_widgets
PlannerViewer(df, plan_name, source_files) ==
    populate_tree(
        [title         |-> plan_name,
         df            |-> df,
         filtered_df   |-> df,
         active_column |-> None,
         sort_col      |-> None,
         sort_asc      |-> TRUE,
         source_files  |-> source_files,
         search_var    |-> <<>>,
         tree_columns  |-> df.columns,
         tree          |-> <<>>,
         selection     |-> <<>>],
        df)

\* one cell against the query: astype(str).str.lower().str.contains(query)
CellContains(cell, query) == RegexSearch(query, Lower(AsTypeStr(cell)))

\* the mask of on_search for a non-empty query
SearchMask(v, query) ==
    IF v.active_column # None
    THEN [i \in 1..NRows(v.df) |-> CellContains(v.df.data[i][v.active_column], query)]
    ELSE [i \in 1..NRows(v.df) |->
            \E c \in Range(v.df.columns) : CellContains(v.df.data[i][c], query)]

\* str.contains compiles the pattern first and raises re.error on a
\* malformed one; DataFrame.apply over no rows swallows the error
SearchRaises(v, query) ==
    /\ query # <<>>
    /\ ~RegexValid(query)
    /\ (v.active_column # None \/ NRows(v.df) > 0)

\* highlight_active_column: tree.heading(c) raises TclError for a DataFrame
\* column the Treeview was not created with
HighlightRaises(v) == \E c \in Range(v.df.columns) : c \notin Range(v.tree_columns)

\* on_search: the viewer afterwards and the exception that left it, if any
on_search(v) ==
    LET query == Strip(Lower(v.search_var)) IN
    IF SearchRaises(v, query) THEN [viewer |-> v, exc |-> "re.error"]
    ELSE LET f  == IF query = <<>> \/ ~RegexValid(query) THEN v.df
                   ELSE BoolIndex(v.df, SearchMask(v, query))
             v1 == populate_tree([v EXCEPT !.filtered_df = f], f)
         IN [viewer |-> v1,
             exc    |-> IF HighlightRaises(v1) THEN "TclError" ELSE "none"]

(* ------------------------------------------------------ the user's input *)

\* what is typed (or pasted) into the filter entry
Terms == { <<>>, <<" ","N">>, <<".">>, <<"(">> }

\* what is typed into an entry of the add-task dialog
AddValues == { <<"b">> }

Completed  == <<"C","o","m","p","l","e","t","e","d">>
StatusName == <<"S","t","a","t","u","s">>
StatusLike == { <<"s","t","a","t","u","s">>, <<"s","t","a","t","e">>,
                <<"p","r","o","g","r","e","s","s">> }

\* what a handler showed: "none", "info" (messagebox.showinfo), "error"
\* (messagebox.showerror), "declined" (a question answered no, a dialog
\* cancelled) or "traceback" (an exception no handler caught, which Tk reports)
Shown(exc) == IF exc = "none" THEN "none" ELSE "traceback"

Did(op, i, report) == last' = [op |-> op, viewer |-> i, report |-> report]

SetViewer(i, v) == viewers' = [viewers EXCEPT ![i] = v]

(* ------------------------------------------------ PlannerViewer handlers *)

\* <KeyRelease> in the filter entry: the entry holds term, then on_search
KeyRelease(i, term) ==
    LET r == on_search([viewers[i] EXCEPT !.search_var = term])
    IN /\ SetViewer(i, r.viewer)
       /\ Did("search", i, Shown(r.exc))
       /\ UNCHANGED <<session, running, edits, exported>>

\* on_column_click without the toggle: the column clicked is always made
\* the active one
on_column_click_NeverClears(i, col) ==
    LET v == viewers[i]
        r == on_search([v EXCEPT !.active_column = col])
    IN /\ SetViewer(i, r.viewer)
       /\ Did("column", i, Shown(r.exc))
       /\ UNCHANGED <<session, running, edits, exported>>

\* on_column_click(col): a click on one of the Treeview's headings
on_column_click(i, col) ==
    LET v == viewers[i]
        r == on_search([v EXCEPT !.active_column =
                            IF v.active_column = col THEN None ELSE col])
    IN /\ SetViewer(i, r.viewer)
       /\ Did("column", i, Shown(r.exc))
       /\ UNCHANGED <<session, running, edits, exported>>

\* _on_tree_double_click that takes the heading's text for the column: the
\* heading of the active column reads "<column> [filter]"
on_tree_double_click_UsesHeadingText(i, col) ==
    LET v    == viewers[i]
        text == IF v.active_column = col
                THEN col \o <<" ", "[", "f", "i", "l", "t", "e", "r", "]">>
                ELSE col
        v1   == IF v.sort_col = text
                THEN [v EXCEPT !.sort_asc = ~v.sort_asc]
                ELSE [v EXCEPT !.sort_col = text, !.sort_asc = TRUE]
    IN /\ SetViewer(i, populate_tree(v1, v1.filtered_df))
       /\ Did("sort", i, "none")
       /\ UNCHANGED <<session, running, edits, exported>>

\* _on_tree_double_click that keeps the direction when the column changes
on_tree_double_click_KeepsDirection(i, col) ==
    LET v  == viewers[i]
        v1 == IF v.sort_col = col
              THEN [v EXCEPT !.sort_asc = ~v.sort_asc]
              ELSE [v EXCEPT !.sort_col = col]
    IN /\ SetViewer(i, populate_tree(v1, v1.filtered_df))
       /\ Did("sort", i, "none")
       /\ UNCHANGED <<session, running, edits, exported>>

\* _on_tree_double_click on the heading of col
on_tree_double_click(i, col) ==
    LET v  == viewers[i]
        v1 == IF v.sort_col = col
              THEN [v EXCEPT !.sort_asc = ~v.sort_asc]
              ELSE [v EXCEPT !.sort_col = col, !.sort_asc = TRUE]
    IN /\ SetViewer(i, populate_tree(v1, v1.filtered_df))
       /\ Did("sort", i, "none")
       /\ UNCHANGED <<session, running, edits, exported>>

\* _clear_filters
clear_filters(i) ==
    LET v  == viewers[i]
        v1 == [v EXCEPT !.search_var = <<>>, !.active_column = None,
                        !.sort_col = None, !.sort_asc = TRUE,
                        !.filtered_df = v.df]
    IN /\ SetViewer(i, populate_tree(v1, v1.filtered_df))
       /\ Did("clear", i, "none")
       /\ UNCHANGED <<session, running, edits, exported>>

\* no workbook written yet
NoExport == [exists |-> FALSE, columns |-> <<>>, data |-> <<>>]

\* DataFrame.to_excel(path, index=False): the column labels, then the rows
\* in the frame's storage order, without the row labels
to_excel(df) == [exists |-> TRUE, columns |-> df.columns, data |-> df.data]

\* export_to_excel; path is the file picked ("" when the dialog is cancelled)
export_to_excel(i, path) ==
    /\ IF path = ""
       THEN /\ UNCHANGED exported
            /\ Did("export", i, "declined")
       ELSE /\ exported' = to_excel(viewers[i].filtered_df)
            /\ Did("export", i, "info")
    /\ UNCHANGED <<viewers, session, running, edits>>

\* tree.selection() when the button is pressed: click = 0 presses it with the
\* selection as it is; click = k first clicks the k-th displayed row, which
\* the Treeview (selectmode="browse") makes the one selected item
Selection(v, click) == IF click = 0 THEN v.selection ELSE <<v.tree[click].iid>>

Clicked(v, click) == [v EXCEPT !.selection = Selection(v, click)]

Edited == edits < MaxEdits /\ edits' = edits + 1

\* _on_add_task_confirm that puts the new row before the others:
\* pd.concat([new_df, self.df], ignore_index=True)
on_add_task_confirm_Prepends(i, entries) ==
    LET v      == viewers[i]
        new_df == [columns |-> v.df.columns, index |-> <<0>>, data |-> <<entries>>]
        df1    == ResetIndex(Concat(new_df, v.df))
        r      == on_search([v EXCEPT !.df = df1])
        w      == r.viewer
        sel    == IF r.exc = "none" /\ w.tree # <<>>
                  THEN <<w.tree[Len(w.tree)].iid>> ELSE w.selection
    IN /\ NRows(v.df) < MaxRows
       /\ Edited
       /\ SetViewer(i, [w EXCEPT !.selection = sel])
       /\ Did("add", i, Shown(r.exc))
       /\ UNCHANGED <<session, running, exported>>

\* _on_add_task_confirm with the dialog's entries (one per column)
on_add_task_confirm(i, entries) ==
    LET v      == viewers[i]
        new_df == [columns |-> v.df.columns, index |-> <<0>>, data |-> <<entries>>]
        df1    == ResetIndex(Concat(v.df, new_df))
        r      == on_search([v EXCEPT !.df = df1])
        w      == r.viewer
        sel    == IF r.exc = "none" /\ w.tree # <<>>
                  THEN <<w.tree[Len(w.tree)].iid>> ELSE w.selection
    IN /\ NRows(v.df) < MaxRows
       /\ Edited
       /\ SetViewer(i, [w EXCEPT !.selection = sel])
       /\ Did("add", i, Shown(r.exc))
       /\ UNCHANGED <<session, running, exported>>

\* the status-like column mark_selected_done picks, None when there is none
StatusColumn(columns) ==
    LET Like(c) == Lower(c) \in StatusLike
        hits    == SelectSeq(columns, Like)
    IN IF hits = <<>> THEN None ELSE Head(hits)

RECURSIVE MarkItems(_, _, _)
\* the loop of mark_selected_done over the selected items
MarkItems(df, items, status_col) ==
    IF items = <<>> THEN df
    ELSE LET item == Head(items)
             df1  == IF IsInt(item) /\ StrToInt(item) \in Range(df.index)
                     THEN SetAt(df, StrToInt(item), status_col, Completed)
                     ELSE df
         IN MarkItems(df1, Tail(items), status_col)

\* mark_selected_done
mark_selected_done(i, click) ==
    LET v          == Clicked(viewers[i], click)
        found      == StatusColumn(v.df.columns)
        status_col == IF found = None THEN StatusName ELSE found
        df0        == IF found = None THEN SetColumn(v.df, StatusName, <<>>) ELSE v.df
        df1        == MarkItems(df0, v.selection, status_col)
        r          == on_search([v EXCEPT !.df = df1])
    IN /\ IF v.selection = <<>>
          THEN /\ SetViewer(i, v)
               /\ Did("mark", i, "info")
               /\ UNCHANGED edits
          ELSE /\ Edited
               /\ SetViewer(i, r.viewer)
               /\ Did("mark", i, IF r.exc = "none" THEN "none" ELSE "error")
       /\ UNCHANGED <<session, running, exported>>

\* the indices delete_selected collects from the selected items
RECURSIVE IndicesToDelete(_)
IndicesToDelete(items) ==
    IF items = <<>> THEN <<>>
    ELSE IF IsInt(Head(items))
         THEN <<StrToInt(Head(items))>> \o IndicesToDelete(Tail(items))
         ELSE IndicesToDelete(Tail(items))

\* delete_selected; confirm is the answer to the "Confirm Delete" question
delete_selected(i, click, confirm) ==
    LET v       == Clicked(viewers[i], click)
        indices == IndicesToDelete(v.selection)
        df1     == ResetIndex(Drop(v.df, indices))
        r       == on_search([v EXCEPT !.df = df1])
    IN /\ IF v.selection = <<>>
          THEN /\ SetViewer(i, v)
               /\ Did("delete", i, "info")
               /\ UNCHANGED edits
          ELSE IF ~confirm \/ indices = <<>>
          THEN /\ SetViewer(i, v)
               /\ Did("delete", i, "declined")
               /\ UNCHANGED edits
          ELSE IF DropRaises(v.df, indices)
          THEN /\ SetViewer(i, v)
               /\ Did("delete", i, "error")
               /\ UNCHANGED edits
          ELSE /\ Edited
               /\ SetViewer(i, r.viewer)
               /\ Did("delete", i, IF r.exc = "none" THEN "none" ELSE "error")
       /\ UNCHANGED <<session, running, exported>>

(* --------------------------------------------------------------- MainApp *)

\* _merge_into_viewer(viewer, new_df, file_path): the viewer afterwards and
\* the exception that left it, if any
merge_into_viewer(v, new_df, file_path) ==
    LET union_cols == FromKeys(v.df.columns \o new_df.columns)
        base       == Reindex(v.df, union_cols, <<>>)
        incoming   == Reindex(new_df, union_cols, <<>>)
        r          == on_search([v EXCEPT !.df = Concat(base, incoming)])
        w          == r.viewer
    IN IF r.exc # "none" THEN r
       ELSE [viewer |-> IF file_path \in Range(w.source_files) THEN w
                        ELSE [w EXCEPT !.source_files = Append(w.source_files, file_path)],
             exc    |-> "none"]

\* _open_new_viewer(df, plan_name, source_files) on a list of viewers
open_new_viewer(vs, df, plan_name, source_files) ==
    Append(vs, PlannerViewer(df, plan_name, source_files))

\* add_new_plan: file_path is the file picked ("" when the dialog is
\* cancelled), choice the answer of _ask_merge_or_new, target the position
\* picked in _pick_viewer_dialog (0 when that dialog is cancelled)
add_new_plan(file_path, choice, target) ==
    /\ running
    /\ UNCHANGED <<session, running, exported>>
    /\ IF file_path = ""
       THEN /\ UNCHANGED <<viewers, edits>>
            /\ Did("add_plan", 0, "declined")
       ELSE IF LoadRaises(file_path)
       THEN /\ UNCHANGED <<viewers, edits>>
            /\ Did("add_plan", 0, "error")
       ELSE IF viewers # <<>> /\ choice = "merge"
       THEN IF target = 0
            THEN /\ UNCHANGED <<viewers, edits>>
                 /\ Did("add_plan", 0, "declined")
            ELSE LET r == merge_into_viewer(viewers[target], load_excel(file_path), file_path)
                 IN /\ NRows(viewers[target].df) + NRows(load_excel(file_path)) <= MaxRows
                    /\ Edited
                    /\ SetViewer(target, r.viewer)
                    /\ Did("merge", target, IF r.exc = "none" THEN "info" ELSE "traceback")
       ELSE IF viewers # <<>> /\ choice = "cancel"
       THEN /\ UNCHANGED <<viewers, edits>>
            /\ Did("add_plan", 0, "declined")
       ELSE /\ Len(viewers) < MaxViewers
            /\ viewers' = open_new_viewer(viewers, load_excel(file_path), file_path, <<file_path>>)
            /\ Did("open", Len(viewers) + 1, "none")
            /\ UNCHANGED edits

\* the list save_session writes
Capture(vs) == [k \in 1..Len(vs) |-> [title |-> vs[k].title, sources |-> vs[k].source_files]]

\* save_session
save_session ==
    session' = [exists |-> TRUE, entries |-> Capture(viewers)]

\* the inner loop of load_session without the try/except around load_excel:
\* a source that fails ends the entry
RestoreSources_StopsAtFailure(vs, sources) ==
    IF sources = <<>> THEN vs
    ELSE IF LoadRaises(Head(sources)) THEN vs
    ELSE open_new_viewer(vs, load_excel(Head(sources)), Head(sources), <<>>)

\* the inner loop of load_session over one entry's sources: the first source
\* that loads is opened as a viewer and the loop is left
RECURSIVE RestoreSources(_, _)
RestoreSources(vs, sources) ==
    IF sources = <<>> THEN vs
    ELSE IF LoadRaises(Head(sources)) THEN RestoreSources(vs, Tail(sources))
    ELSE open_new_viewer(vs, load_excel(Head(sources)), Head(sources), <<>>)

\* the outer loop of load_session over the entries
RECURSIVE RestoreEntries(_, _)
RestoreEntries(vs, entries) ==
    IF entries = <<>> THEN vs
    ELSE RestoreEntries(RestoreSources(vs, Head(entries).sources), Tail(entries))

\* load_session on the list of viewers
load_session(vs, file) == IF file.exists THEN RestoreEntries(vs, file.entries) ELSE vs

\* File > Save Session...
save_session_dialog ==
    /\ running
    /\ save_session
    /\ Did("save", 0, "info")
    /\ UNCHANGED <<viewers, running, edits, exported>>

\* File > Load Session...
load_session_dialog ==
    /\ running
    /\ Len(load_session(viewers, session)) <= MaxViewers
    /\ viewers' = load_session(viewers, session)
    /\ Did("load", 0, "info")
    /\ UNCHANGED <<session, running, edits, exported>>

\* _on_viewer_closed(viewer) on a list of viewers: viewers.remove(viewer)
on_viewer_closed(vs, i) == SubSeq(vs, 1, i - 1) \o SubSeq(vs, i + 1, Len(vs))

\* close_selected_viewer with the i-th entry of the listbox selected
close_selected_viewer(i) ==
    /\ running
    /\ viewers' = on_viewer_closed(viewers, i)
    /\ Did("close", i, "none")
    /\ UNCHANGED <<session, running, edits, exported>>

\* the loop of _on_exit: every viewer of list(self.viewers) is closed
RECURSIVE CloseAll(_, _)
CloseAll(vs, n) == IF n = 0 THEN vs ELSE CloseAll(on_viewer_closed(vs, 1), n - 1)

\* _on_exit that saves the session after the viewers were closed
on_exit_SavesAfterClosing ==
    /\ running
    /\ session' = [exists |-> TRUE, entries |-> Capture(CloseAll(viewers, Len(viewers)))]
    /\ viewers' = CloseAll(viewers, Len(viewers))
    /\ running' = FALSE
    /\ Did("exit", 0, "none")
    /\ UNCHANGED <<edits, exported>>

\* _on_exit
on_exit ==
    /\ running
    /\ save_session
    /\ viewers' = CloseAll(viewers, Len(viewers))
    /\ running' = FALSE
    /\ Did("exit", 0, "none")
    /\ UNCHANGED <<edits, exported>>

\* MainApp.__init__ when the program is started again
MainApp ==
    /\ ~running
    /\ viewers' = load_session(<<>>, session)
    /\ running' = TRUE
    /\ Did("start", 0, "none")
    /\ UNCHANGED <<session, edits, exported>>

(* -------------------------------------------------------- specifications *)

Loadable == {p \in Paths : ~LoadRaises(p)}

NoSession == [exists |-> FALSE, entries |-> <<>>]

\* One viewer window, as add_new_plan opens it from a workbook, and every
\* command on it, including merging further workbooks into it.
Init ==
    /\ \E p \in Loadable : viewers = <<PlannerViewer(load_excel(p), p, <<p>>)>>
    /\ session = NoSession
    /\ running = TRUE
    /\ last = [op |-> "open", viewer |-> 1, report |-> "none"]
    /\ edits = 0
    /\ exported = NoExport

Search == \E i \in 1..Len(viewers) : \E term \in Terms : KeyRelease(i, term)

ColumnClick ==
    \E i \in 1..Len(viewers) : \E col \in Range(viewers[i].tree_columns) :
        on_column_click(i, col)

HeadingDoubleClick ==
    \E i \in 1..Len(viewers) : \E col \in Range(viewers[i].tree_columns) :
        on_tree_double_click(i, col)

Clear == \E i \in 1..Len(viewers) : clear_filters(i)

AddTask ==
    \E i \in 1..Len(viewers) : \E entries \in [Range(viewers[i].df.columns) -> AddValues] :
        on_add_task_confirm(i, entries)

MarkDone ==
    \E i \in 1..Len(viewers) : \E click \in 0..Len(viewers[i].tree) :
        mark_selected_done(i, click)

Delete ==
    \E i \in 1..Len(viewers) : \E click \in 0..Len(viewers[i].tree) :
        \E confirm \in BOOLEAN : delete_selected(i, click, confirm)

MergePlan == \E i \in 1..Len(viewers) : \E p \in Loadable : add_new_plan(p, "merge", i)

Next ==
    \/ Search
    \/ ColumnClick
    \/ HeadingDoubleClick
    \/ Clear
    \/ AddTask
    \/ MarkDone
    \/ Delete
    \/ MergePlan

Spec == Init /\ [][Next]_vars

\* the session file MainApp finds at its first start: none, or one written
\* by an earlier run, some of whose workbooks are gone by now
InitialSessions ==
    { NoSession,
      [exists |-> TRUE,
       entries |-> << [title |-> "bad", sources |-> <<"bad">>],
                      [title |-> "bad", sources |-> <<"bad", "f3">>] >>] }

\* MainApp from its start: plans opened and merged, viewers closed, the
\* session saved and loaded, the program left and started again.
SessionInit ==
    /\ session \in InitialSessions
    /\ viewers = load_session(<<>>, session)
    /\ running = TRUE
    /\ last = [op |-> "start", viewer |-> 0, report |-> "none"]
    /\ edits = 0
    /\ exported = NoExport

AddPlan ==
    \E p \in Paths \cup {""} : \E choice \in {"merge", "new", "cancel"} :
        \E target \in 0..Len(viewers) : add_new_plan(p, choice, target)

SaveSession == save_session_dialog

LoadSession == load_session_dialog

CloseViewer == \E i \in 1..Len(viewers) : close_selected_viewer(i)

Exit == on_exit

Start == MainApp

SessionNext ==
    \/ AddPlan
    \/ SaveSession
    \/ LoadSession
    \/ CloseViewer
    \/ Exit
    \/ Start

SessionSpec == SessionInit /\ [][SessionNext]_vars

\* One viewer window with its filter, sort and Export... button.
Export == \E i \in 1..Len(viewers) : \E path \in {"", "out"} : export_to_excel(i, path)

ExportNext ==
    \/ Search
    \/ ColumnClick
    \/ HeadingDoubleClick
    \/ Clear
    \/ Export

ExportSpec == Init /\ [][ExportNext]_vars

(* ---------------------------------------------------------------- claims *)

\* the storage position of the row labelled id
PositionOf(df, id) == CHOOSE p \in 1..NRows(df) : df.index[p] = id

\* the labels of the rows the Treeview shows, top to bottom
DisplayedIds(v) == [k \in 1..Len(v.tree) |-> StrToInt(v.tree[k].iid)]

\* t occurs in s as a literal substring
LiteralContains(s, t) ==
    \E k \in 0..(Len(s) - Len(t)) : \A j \in 1..Len(t) : s[k + j] = t[j]

\* the row at position p satisfies the viewer's current filter, as its
\* search decides it
Satisfies(v, p) ==
    LET query == Strip(Lower(v.search_var))
    IN query = <<>> \/ SearchMask(v, query)[p]

\* the row at position a is shown strictly before the one at position b
\* under the viewer's current sort: by the sort column's cell (missing cells
\* after all others), ties in storage order
ShownBefore(v, a, b) ==
    IF v.sort_col = None \/ v.sort_col \notin Range(v.df.columns) THEN a < b
    ELSE LET ka == v.df.data[a][v.sort_col]
             kb == v.df.data[b][v.sort_col]
         IN IF ka = kb THEN a < b
            ELSE IF ka = NaN THEN FALSE
            ELSE IF kb = NaN THEN TRUE
            ELSE IF v.sort_asc THEN StrLess(ka, kb) ELSE StrLess(kb, ka)

\* every displayed item names a row of the current DataFrame and shows that
\* row's cells, and no row is displayed twice
IdentitiesCurrent(v) ==
    /\ \A k \in 1..Len(v.tree) :
          /\ IsInt(v.tree[k].iid)
          /\ StrToInt(v.tree[k].iid) \in Range(v.df.index)
          /\ v.tree[k].values =
                [j \in 1..Len(v.df.columns) |->
                    DisplayStr(v.df.data[PositionOf(v.df, StrToInt(v.tree[k].iid))][v.df.columns[j]])]
    /\ \A k, l \in 1..Len(v.tree) : k # l => v.tree[k].iid # v.tree[l].iid

\* C1: after every command that ran to its end, the displayed rows are
\* exactly the rows of the current dataset that satisfy the current filter,
\* in the current sort order, and every displayed identity names the same
\* row of the current dataset. (Under a pattern the search cannot compile no
\* row set is asked of the filter; identities and order are still asked.)
C1_DisplayIsDerivedView ==
    \A i \in 1..Len(viewers) :
        LET v == viewers[i] IN
        last.report # "traceback" =>
            /\ IdentitiesCurrent(v)
            /\ RegexValid(Strip(Lower(v.search_var))) =>
                  {StrToInt(v.tree[k].iid) : k \in 1..Len(v.tree)}
                      = {v.df.index[p] : p \in {q \in 1..NRows(v.df) : Satisfies(v, q)}}
            /\ \A k, l \in 1..Len(v.tree) :
                  k < l => ~ShownBefore(v, PositionOf(v.df, DisplayedIds(v)[l]),
                                           PositionOf(v.df, DisplayedIds(v)[k]))

\* the selected items all name rows of the DataFrame
SelectionExists(v, sel) ==
    sel # <<>> /\ \A k \in 1..Len(sel) : IsInt(sel[k]) /\ StrToInt(sel[k]) \in Range(v.df.index)

\* the storage positions of df that survive the deletion of the labels ids
Survivors(df, ids) == {p \in 1..NRows(df) : df.index[p] \notin ids}

\* new is old without the rows labelled ids: the survivors in their old
\* order, cells unchanged, labelled 0..N-1
DeletedAndRenumbered(old, new, ids) ==
    /\ new.columns = old.columns
    /\ NRows(new) = Cardinality(Survivors(old, ids))
    /\ \A k \in 1..NRows(new) :
          /\ new.index[k] = k - 1
          /\ \E p \in Survivors(old, ids) :
                /\ Cardinality({q \in Survivors(old, ids) : q < p}) = k - 1
                /\ new.data[k] = old.data[p]

\* C2: deleting existing row identities removes exactly those rows and
\* renumbers the survivors to 0..N-1 in their prior order, cells unchanged
C2_DeleteRenumbers ==
    [][\A i \in 1..Len(viewers) : \A click \in 0..Len(viewers[i].tree) :
          LET sel == Selection(viewers[i], click) IN
          (delete_selected(i, click, TRUE) /\ SelectionExists(viewers[i], sel))
            => DeletedAndRenumbered(viewers[i].df, viewers'[i].df,
                                    {StrToInt(sel[k]) : k \in 1..Len(sel)})]_vars

\* a deletion went through and left two rows, the first of them a row that
\* was stored second before
C2_Witness ==
    \E i \in 1..Len(viewers) :
        /\ last = [op |-> "delete", viewer |-> i, report |-> "none"]
        /\ viewers[i].source_files = <<"f1">>
        /\ NRows(viewers[i].df) = 2
        /\ viewers[i].df.data[1] = load_excel("f1").data[2]

\* C3: in every reachable state the row identities of a viewer's dataset
\* are exactly 0..N-1
C3_DenseIdentities ==
    \A i \in 1..Len(viewers) :
        viewers[i].df.index = [k \in 1..NRows(viewers[i].df) |-> k - 1]

\* rows were deleted and then a workbook merged in (two structural changes)
C3_Witness ==
    \E i \in 1..Len(viewers) :
        /\ last.op = "merge" /\ last.viewer = i
        /\ edits = 2
        /\ NRows(viewers[i].df) = 2
        /\ viewers[i].source_files[1] = "f1"

\* C4: with a non-empty term and an active column, a row is visible iff the
\* column's value (null as the empty string), case-folded, contains the
\* case-folded term as a literal substring
C4_ActiveColumnLiteralMatch ==
    \A i \in 1..Len(viewers) :
        LET v == viewers[i] IN
        ( /\ v.search_var # <<>>
          /\ v.active_column # None
          /\ last.viewer = i
          /\ last.op \in {"search", "column"}
          /\ last.report = "none" )
        => {StrToInt(v.tree[k].iid) : k \in 1..Len(v.tree)}
             = {v.df.index[p] : p \in {q \in 1..NRows(v.df) :
                    LiteralContains(Lower(DisplayStr(v.df.data[q][v.active_column])),
                                    Lower(v.search_var))}}

\* the step merges the workbook at path p into viewer i
MergeStep(i, p) == ~LoadRaises(p) /\ add_new_plan(p, "merge", i)

\* the columns of seq that are not among those of base, in seq's order
NotAmong(seq, base) == LET New(c) == c \notin Range(base) IN SelectSeq(seq, New)

\* C5: a merge yields the base's columns in their order, followed by the
\* incoming columns not already present, in the incoming order
C5_MergeColumnUnion ==
    [][\A i \in 1..Len(viewers) : \A p \in Paths :
          MergeStep(i, p) =>
             viewers'[i].df.columns =
                viewers[i].df.columns
                    \o NotAmong(load_excel(p).columns, viewers[i].df.columns)]_vars

\* [Task, Due] was merged with [Due, State]
C5_Witness ==
    \E i \in 1..Len(viewers) :
        /\ last.op = "merge" /\ last.viewer = i
        /\ viewers[i].df.columns = <<Task, Due, State>>

\* C6: after a merge every base row holds "" in the columns only the
\* incoming had, every incoming row holds "" in the columns only the base
\* had, and every other cell keeps its value
C6_MergeFillsEmptyString ==
    [][\A i \in 1..Len(viewers) : \A p \in Paths :
          MergeStep(i, p) =>
             LET base     == viewers[i].df
                 incoming == load_excel(p)
                 merged   == viewers'[i].df
             IN /\ NRows(merged) = NRows(base) + NRows(incoming)
                /\ \A k \in 1..NRows(base) : \A c \in Range(merged.columns) :
                      merged.data[k][c] =
                         IF c \in Range(base.columns) THEN base.data[k][c] ELSE <<>>
                /\ \A k \in 1..NRows(incoming) : \A c \in Range(merged.columns) :
                      merged.data[NRows(base) + k][c] =
                         IF c \in Range(incoming.columns) THEN incoming.data[k][c] ELSE <<>>]_vars

\* a merge filled a base row and an incoming row with "", next to a cell
\* that was and stays missing
C6_Witness ==
    \E i \in 1..Len(viewers) :
        LET df == viewers[i].df IN
        /\ last.op = "merge" /\ last.viewer = i
        /\ df.columns = <<Task, Due, State>>
        /\ NRows(df) = 3
        /\ df.data[1][State] = <<>>
        /\ df.data[1][Due] = NaN
        /\ df.data[3][Task] = <<>>
        /\ df.data[3][State] = NaN

\* C7: the merged dataset is the base rows in their order followed by the
\* incoming rows in theirs, identified 0..N-1, N the sum of the two counts
C7_MergeConcatenates ==
    [][\A i \in 1..Len(viewers) : \A p \in Paths :
          MergeStep(i, p) =>
             LET base     == viewers[i].df
                 incoming == load_excel(p)
                 merged   == viewers'[i].df
                 n        == NRows(base) + NRows(incoming)
             IN /\ Len(merged.data) = n
                /\ merged.index = [k \in 1..n |-> k - 1]
                /\ \A k \in 1..NRows(base) : \A c \in Range(base.columns) :
                      merged.data[k][c] = base.data[k][c]
                /\ \A k \in 1..NRows(incoming) : \A c \in Range(incoming.columns) :
                      merged.data[NRows(base) + k][c] = incoming.data[k][c]]_vars

\* a workbook was merged into a viewer that already held its rows: the
\* duplicate rows are all there
C7_Witness ==
    \E i \in 1..Len(viewers) :
        LET df == viewers[i].df IN
        /\ last.op = "merge" /\ last.viewer = i
        /\ NRows(df) = 2
        /\ df.index = <<0, 1>>
        /\ df.data[1] = df.data[2]

\* the sources of a descriptor entry that load
LoadableOf(sources) == LET Loads(x) == ~LoadRaises(x) IN SelectSeq(sources, Loads)

\* the descriptor entries that have a source that loads
Restorable(entries) ==
    LET Some(e) == LoadableOf(e.sources) # <<>> IN SelectSeq(entries, Some)

\* the merge of two datasets, as the merge engine is specified: the columns
\* of a then the new ones of b, the rows of a then those of b, "" where a
\* side lacks a column, identities 0..N-1
MergedDataset(a, b) ==
    LET cols == a.columns \o NotAmong(b.columns, a.columns)
        n    == NRows(a) + NRows(b)
    IN [columns |-> cols,
        index   |-> [k \in 1..n |-> k - 1],
        data    |-> [k \in 1..n |->
                        [c \in Range(cols) |->
                            IF k <= NRows(a)
                            THEN (IF c \in Range(a.columns) THEN a.data[k][c] ELSE <<>>)
                            ELSE (IF c \in Range(b.columns)
                                  THEN b.data[k - NRows(a)][c] ELSE <<>>)]]]

\* the dataset rebuilt from sources that load: the first loaded, every
\* later one merged into it in order
RECURSIVE MergeInto(_, _)
MergeInto(df, sources) ==
    IF sources = <<>> THEN df
    ELSE MergeInto(MergedDataset(df, load_excel(Head(sources))), Tail(sources))

Rebuilt(sources) == MergeInto(load_excel(Head(sources)), Tail(sources))

\* C8: session restore rebuilds each descriptor entry as one dataset: its
\* first source loaded, every subsequent source merged into it in order, so
\* that the dataset holds the rows of all the entry's sources that load
C8_RestoreMergesAllSources ==
    last.op = "start" =>
        LET entries == Restorable(session.entries)
        IN /\ Len(viewers) = Len(entries)
           /\ \A k \in 1..Len(entries) :
                 viewers[k].df = Rebuilt(LoadableOf(entries[k].sources))

\* the number of entries up to the k-th that restore to a viewer
RestoredUpTo(entries, k) ==
    Cardinality({j \in 1..k : LoadableOf(entries[j].sources) # <<>>})

\* C9: session round trip: a viewer whose sources all load is, after the
\* session is saved (on exit) and loaded (on start), a dataset whose columns
\* and row count are those of loading its first source and merging the rest
C9_SessionRoundTrip ==
    (last.op = "start" /\ session.exists) =>
        \A k \in 1..Len(session.entries) :
            LET sources == session.entries[k].sources IN
            (sources # <<>> /\ LoadableOf(sources) = sources) =>
                LET n == RestoredUpTo(session.entries, k) IN
                /\ n <= Len(viewers)
                /\ viewers[n].df.columns = Rebuilt(sources).columns
                /\ NRows(viewers[n].df) = NRows(Rebuilt(sources))

\* the status-like column of lowest position, if there is one
HasStatusLike(columns) == \E j \in 1..Len(columns) : Lower(columns[j]) \in StatusLike

FirstStatusLike(columns) ==
    columns[CHOOSE j \in 1..Len(columns) :
                /\ Lower(columns[j]) \in StatusLike
                /\ \A h \in 1..(j - 1) : Lower(columns[h]) \notin StatusLike]

\* new is old with row id marked done
MarkedDone(old, new, id) ==
    LET has  == HasStatusLike(old.columns)
        col  == IF has THEN FirstStatusLike(old.columns) ELSE StatusName
    IN /\ new.columns = (IF has THEN old.columns ELSE Append(old.columns, StatusName))
       /\ new.index = old.index
       /\ \A k \in 1..NRows(old) : \A c \in Range(new.columns) :
             new.data[k][c] =
                IF c = col /\ old.index[k] = id THEN Completed
                ELSE IF c \in Range(old.columns) THEN old.data[k][c]
                ELSE <<>>

\* C10: mark done on a selected existing row sets the first status-like
\* column's cell of that row to "Completed", appending a column "Status"
\* ("" for the other rows) when there is none, changes nothing else, and
\* completes without reporting an error
C10_MarkDone ==
    [][\A i \in 1..Len(viewers) : \A click \in 0..Len(viewers[i].tree) :
          LET sel == Selection(viewers[i], click) IN
          (mark_selected_done(i, click) /\ SelectionExists(viewers[i], sel))
            => /\ MarkedDone(viewers[i].df, viewers'[i].df, StrToInt(sel[1]))
               /\ last'.report = "none"]_vars

\* the heading double-clicked is one of the Treeview's columns
Headings(i) == Range(viewers[i].tree_columns)

\* the cell a displayed row is sorted by: the sort column's cell of the row
\* labelled id among the rows populate_tree was given
SortCell(v, id) == v.filtered_df.data[PositionOf(v.filtered_df, id)][v.sort_col]

\* the comparison key as specified: the cell as text, a missing cell as ""
TextKey(v, id) == DisplayStr(SortCell(v, id))

\* C11: the displayed rows are ordered by their text keys, a null cell
\* counting as the empty string, under plain lexicographic comparison:
\* non-decreasing when ascending, non-increasing when descending (so rows
\* with a null key come first ascending and last descending)
C11_SortKeyNullAsEmpty ==
    [][\A i \in 1..Len(viewers) : \A col \in Headings(i) :
          (last'.op = "sort" /\ on_tree_double_click(i, col)) =>
             LET v   == viewers'[i]
                 ids == DisplayedIds(v)
             IN \A k, l \in 1..Len(ids) :
                   k < l => IF v.sort_asc
                            THEN ~StrLess(TextKey(v, ids[l]), TextKey(v, ids[k]))
                            ELSE ~StrLess(TextKey(v, ids[k]), TextKey(v, ids[l]))]_vars

\* no two of the rows populate_tree is given have the same cell in column col
NoTies(df, col) ==
    \A a, b \in 1..NRows(df) : a # b => df.data[a][col] # df.data[b][col]

\* C12: when no two visible rows have equal keys on the sort column (a null
\* cell counting as one value), flipping the direction of the sort shows the
\* rows in the exact reverse of the order shown before
C12_DescendingReversesAscending ==
    [][\A i \in 1..Len(viewers) : \A col \in Headings(i) :
          ( /\ last'.op = "sort"
            /\ viewers[i].sort_col = col
            /\ on_tree_double_click(i, col)
            /\ NoTies(viewers[i].filtered_df, col) )
          => DisplayedIds(viewers'[i]) = Reverse(DisplayedIds(viewers[i]))]_vars

\* displayed rows with the same sort cell are in ascending identity order
TiesInIdentityOrder(v) ==
    LET ids == DisplayedIds(v)
    IN \A k, l \in 1..Len(ids) :
          (k < l /\ SortCell(v, ids[k]) = SortCell(v, ids[l])) => ids[k] < ids[l]

DisplayedSet(v) == Range(DisplayedIds(v))

\* C14: double-activating the heading of the current sort column flips the
\* direction and keeps the column; double-activating another heading makes
\* it the sort column, ascending; the dataset, the search term, the active
\* column and the set of rows that pass the filter stay as they were
C14_SortToggle ==
    [][\A i \in 1..Len(viewers) : \A col \in Headings(i) :
          (last'.op = "sort" /\ on_tree_double_click(i, col)) =>
             LET v == viewers[i]
                 w == viewers'[i]
             IN /\ w.sort_col = col
                /\ w.sort_asc = (IF v.sort_col = col THEN ~v.sort_asc ELSE TRUE)
                /\ w.df = v.df
                /\ w.search_var = v.search_var
                /\ w.active_column = v.active_column
                /\ DisplayedSet(w) = DisplayedSet(v)]_vars

\* a sort was flipped to descending while a filter that hides a row is in
\* force
C14_Witness ==
    \E i \in 1..Len(viewers) :
        LET v == viewers[i] IN
        /\ last = [op |-> "sort", viewer |-> i, report |-> "none"]
        /\ v.sort_col = Due
        /\ ~v.sort_asc
        /\ Strip(v.search_var) # <<>>
        /\ Len(v.tree) = 2
        /\ NRows(v.df) = 3

\* C15: activating column c clears the active column when c is the active
\* one and makes c the active column otherwise (replacing any other); the
\* search term, the sort column, the sort direction and the dataset stay as
\* they were
C15_ActiveColumnToggle ==
    [][\A i \in 1..Len(viewers) : \A col \in Headings(i) :
          (last'.op = "column" /\ on_column_click(i, col)) =>
             LET v == viewers[i]
                 w == viewers'[i]
             IN /\ w.active_column = (IF v.active_column = col THEN None ELSE col)
                /\ w.search_var = v.search_var
                /\ w.sort_col = v.sort_col
                /\ w.sort_asc = v.sort_asc
                /\ w.df = v.df]_vars

\* the active column was cleared by a second click on it, with a search term
\* and a sort in force, and the whole-row search shows rows again
C15_Witness ==
    \E i \in 1..Len(viewers) :
        LET v == viewers[i] IN
        /\ last = [op |-> "column", viewer |-> i, report |-> "none"]
        /\ v.active_column = None
        /\ Strip(v.search_var) # <<>>
        /\ v.sort_col # None
        /\ Len(v.tree) > 0

\* how often x occurs in the sequence s
Count(s, x) == Cardinality({k \in 1..Len(s) : s[k] = x})

\* a is an initial part of b
IsPrefix(a, b) == Len(a) <= Len(b) /\ SubSeq(b, 1, Len(a)) = a

\* C16: after a merge of the file f into a viewer the viewer's recorded
\* source list holds f exactly once, after all the sources recorded before
\* (which stay as they were), whatever the columns of base and incoming
C16_MergeRecordsSource ==
    [][\A i \in 1..Len(viewers) : \A p \in Paths :
          MergeStep(i, p) =>
             LET old == viewers[i].source_files
                 new == viewers'[i].source_files
             IN /\ Count(new, p) = 1
                /\ IsPrefix(old, new)
                /\ p \notin Range(old) => new = Append(old, p)]_vars

\* the rows a new row can be given in the add-task dialog of viewer i
Entries(i) == [Range(viewers[i].df.columns) -> AddValues]

\* C17: adding a row appends exactly one row whose identity is the row count
\* before; the count grows by one, the columns stay, and every row there
\* before keeps its identity and its cells
C17_AddAppendsRow ==
    [][\A i \in 1..Len(viewers) : \A entries \in Entries(i) :
          (last'.op = "add" /\ on_add_task_confirm(i, entries)) =>
             LET old == viewers[i].df
                 new == viewers'[i].df
             IN /\ NRows(new) = NRows(old) + 1
                /\ Len(new.data) = NRows(new)
                /\ new.columns = old.columns
                /\ new.index[NRows(new)] = NRows(old)
                /\ \A k \in 1..NRows(old) :
                      /\ new.index[k] = old.index[k]
                      /\ new.data[k] = old.data[k]]_vars

\* a row was added to a viewer that had lost a row before: the new row is
\* stored last under the identity 1, after the surviving row of f1
C17_Witness ==
    \E i \in 1..Len(viewers) :
        LET df == viewers[i].df IN
        /\ last = [op |-> "add", viewer |-> i, report |-> "none"]
        /\ edits = 2
        /\ df.index = <<0, 1>>
        /\ df.data[1] \in Range(load_excel("f1").data)
        /\ df.data[2] = [c \in Range(df.columns) |-> <<"b">>]

\* C18: with a non-empty term and no active column, a row is visible iff one
\* of its cells, as text and case-folded, contains the case-folded term as a
\* substring (any column of the dataset)
C18_WholeRowMatch ==
    \A i \in 1..Len(viewers) :
        LET v == viewers[i] IN
        ( /\ v.search_var # <<>>
          /\ v.active_column = None
          /\ last.viewer = i
          /\ last.op \in {"search", "column"}
          /\ last.report = "none" )
        => DisplayedSet(v)
             = {v.df.index[p] : p \in {q \in 1..NRows(v.df) :
                    \E c \in Range(v.df.columns) :
                        LiteralContains(Lower(AsTypeStr(v.df.data[q][c])),
                                        Lower(v.search_var))}}

\* C19: at a session restore a source that fails to load is skipped and an
\* entry none of whose sources loads is passed over: every entry that has a
\* source that loads is restored, in the session's order, as a viewer that
\* holds the rows of its first source that loads
C19_RestoreSkipsFailures ==
    last.op = "start" =>
        LET entries == Restorable(session.entries)
        IN /\ Len(viewers) = Len(entries)
           /\ \A k \in 1..Len(entries) :
                 LET first == load_excel(Head(LoadableOf(entries[k].sources)))
                 IN /\ viewers[k].title = Head(LoadableOf(entries[k].sources))
                    /\ NRows(viewers[k].df) >= NRows(first)
                    /\ SubSeq(viewers[k].df.data, 1, NRows(first)) = first.data

\* the program started on a session whose first entry has no source that
\* loads and whose second entry's first source fails: the second entry is
\* restored from its second source
C19_Witness ==
    /\ last.op = "start"
    /\ session.exists
    /\ Len(session.entries) = 2
    /\ LoadableOf(session.entries[1].sources) = <<>>
    /\ LoadRaises(Head(session.entries[2].sources))
    /\ Len(viewers) = 1
    /\ viewers[1].title = "f3"

\* C20: sorting is display-only: a change of the sort column or direction
\* and the redraw that follows change neither the dataset's row identities,
\* nor its storage order, nor its cells, nor the filtered rows the viewer
\* holds; a redraw by the search does not change the dataset either
C20_SortIsDisplayOnly ==
    [][\A i \in 1..Len(viewers) :
          /\ \A col \in Headings(i) :
                (last'.op = "sort" /\ on_tree_double_click(i, col)) =>
                   /\ viewers'[i].df.index = viewers[i].df.index
                   /\ viewers'[i].df.columns = viewers[i].df.columns
                   /\ viewers'[i].df.data = viewers[i].df.data
                   /\ viewers'[i].filtered_df = viewers[i].filtered_df
          /\ \A term \in Terms :
                ( /\ last'.op = "search"
                  /\ viewers[i].sort_col # None
                  /\ KeyRelease(i, term) ) =>
                   viewers'[i].df = viewers[i].df]_vars

\* a sort shows the rows in another order than the one they are stored in
C20_Witness ==
    \E i \in 1..Len(viewers) :
        LET v == viewers[i] IN
        /\ last = [op |-> "sort", viewer |-> i, report |-> "none"]
        /\ Len(v.tree) >= 2
        /\ DisplayedIds(v) # v.filtered_df.index
        /\ v.df.index = [k \in 1..NRows(v.df) |-> k - 1]

\* C21: after a row is added through the add-task dialog, the selected row
\* is the newly added row (the one identified by the row count before),
\* whatever the search term, the active column and the sort (asked of the
\* additions whose refresh ran to its end)
C21_AddSelectsNewRow ==
    [][\A i \in 1..Len(viewers) : \A entries \in Entries(i) :
          (last' = [op |-> "add", viewer |-> i, report |-> "none"]
             /\ on_add_task_confirm(i, entries)) =>
             viewers'[i].selection = <<IntToStr(NRows(viewers[i].df))>>]_vars

\* the selected items are all integers and one of them names no row
NamesAbsentRow(v, sel) ==
    /\ sel # <<>>
    /\ \A k \in 1..Len(sel) : IsInt(sel[k])
    /\ \E k \in 1..Len(sel) : StrToInt(sel[k]) \notin Range(v.df.index)

\* C22: a delete request that names an identity not in the dataset ignores
\* that identity silently: no error is reported, the identities that are
\* present are removed and the survivors renumbered as usual
C22_DeleteIgnoresAbsent ==
    [][\A i \in 1..Len(viewers) : \A click \in 0..Len(viewers[i].tree) :
          LET sel == Selection(viewers[i], click) IN
          ( /\ last'.op = "delete"
            /\ NamesAbsentRow(viewers[i], sel)
            /\ delete_selected(i, click, TRUE) )
          => /\ last'.report # "error"
             /\ DeletedAndRenumbered(viewers[i].df, viewers'[i].df,
                                     {StrToInt(sel[k]) : k \in 1..Len(sel)})]_vars

\* C23: export writes the view as the user sees it: the displayed rows in
\* the displayed (sorted) order, with all the dataset's columns in declared
\* order, and changes neither the dataset nor the view state
C23_ExportWritesView ==
    [][\A i \in 1..Len(viewers) :
          (last'.op = "export" /\ export_to_excel(i, "out")) =>
             LET v   == viewers[i]
                 ids == DisplayedIds(v)
             IN /\ exported'.exists
                /\ exported'.columns = v.df.columns
                /\ exported'.data =
                      [k \in 1..Len(ids) |-> v.df.data[PositionOf(v.df, ids[k])]]
                /\ viewers' = viewers]_vars

\* C24: a viewer rebuilt by session restore carries the source list of the
\* descriptor entry it was rebuilt from, so that a session saved right after
\* the restore lists for every restored viewer the sources that were read
C24_RestoreKeepsSources ==
    last.op = "start" =>
        LET entries == Restorable(session.entries)
        IN /\ Len(viewers) = Len(entries)
           /\ \A k \in 1..Len(entries) :
                 /\ viewers[k].source_files = entries[k].sources
                 /\ Capture(viewers)[k].sources # <<>>

\* C25: in every reachable state the active column of a viewer is unset or
\* a column of its dataset, and so is its sort column
C25_StateColumnsExist ==
    \A i \in 1..Len(viewers) :
        LET v == viewers[i] IN
        /\ v.active_column = None \/ v.active_column \in Range(v.df.columns)
        /\ v.sort_col = None \/ v.sort_col \in Range(v.df.columns)

\* an active column and a sort column are set on a dataset that was changed
\* twice and has columns the viewer was not opened with
C25_Witness ==
    \E i \in 1..Len(viewers) :
        LET v == viewers[i] IN
        /\ v.active_column # None
        /\ v.sort_col # None
        /\ v.sort_col # v.active_column
        /\ Len(v.df.columns) > Len(v.tree_columns)
        /\ edits = 2

\* C26: on exit the session is captured before any viewer is closed: it has
\* one entry per viewer open at exit, in registry order, and when the exit
\* is done the registry is empty; closing one viewer removes exactly that
\* viewer from the registry
C26_ExitCapturesThenCloses ==
    [][/\ (last'.op = "exit" /\ on_exit) =>
             /\ session'.exists
             /\ Len(session'.entries) = Len(viewers)
             /\ \A k \in 1..Len(viewers) :
                   /\ session'.entries[k].title = viewers[k].title
                   /\ session'.entries[k].sources = viewers[k].source_files
             /\ viewers' = <<>>
       /\ \A i \in 1..Len(viewers) :
             (last'.op = "close" /\ close_selected_viewer(i)) =>
                /\ Len(viewers') = Len(viewers) - 1
                /\ \A k \in 1..Len(viewers') :
                      viewers'[k] = (IF k < i THEN viewers[k] ELSE viewers[k + 1])]_vars

\* the program was left with two viewers open, one of them with a merged
\* source: the session has their two entries and the registry is empty
C26_Witness ==
    /\ last.op = "exit"
    /\ ~running
    /\ viewers = <<>>
    /\ Len(session.entries) = 2
    /\ Len(session.entries[1].sources) = 2

====
